---- MODULE Spec2Model ----
(***************************************************************************)
(* Model of agent.py: the matching and scoring engine of the job           *)
(* application copilot (normalize, extract_keywords, tokenize_words,       *)
(* extract_phrases, rerank_phrases_diverse, phrase_coverage,               *)
(* find_red_flags, split_bullets, safe_rewrite_bullet, run_agent).         *)
(*                                                                         *)
(* A text is a sequence of characters; a character is a one-character      *)
(* string.  The alphabet is ASCII; BULLET_CHAR stands for the one          *)
(* non-ASCII character the code names (U+2022).  Floats are exact          *)
(* rationals [num, den]; a value rounded to three decimals is an integer   *)
(* number of thousandths.                                                  *)
(***************************************************************************)
EXTENDS Integers, Sequences, FiniteSets, TLC

VARIABLES
  pc,               \* position in run_agent, or in a direct call
  resume_text,      \* run_agent's argument
  job_text,         \* run_agent's argument
  resume_kws,       \* locals of run_agent, by name
  job_kws,
  overlap,
  missing,
  bank_cov,
  phrase_cov,
  phrase_overlap,
  phrase_missing,
  red_flags,
  confidence,
  blended,
  scores,
  bullets,
  suggested_edits,
  packet,           \* the OutputPacket run_agent returns
  rr_phrases,       \* rerank_phrases_diverse: argument phrases
  rr_cap,           \* rerank_phrases_diverse: argument max_per_token
  rr_out            \* rerank_phrases_diverse: result

vars == <<pc, resume_text, job_text, resume_kws, job_kws, overlap, missing,
          bank_cov, phrase_cov, phrase_overlap, phrase_missing, red_flags,
          confidence, blended, scores, bullets, suggested_edits, packet,
          rr_phrases, rr_cap, rr_out>>

-----------------------------------------------------------------------------
(* Configuration: agent.py lines 21-31 and 67-84.                          *)

TECH_KEYWORDS ==
  <<
    <<"p","y","t","h","o","n">>, <<"s","q","l">>, <<"a","p","i">>,
    <<"r","e","s","t">>, <<"f","a","s","t","a","p","i">>, <<"f","l","a","s","k">>,
    <<"d","o","c","k","e","r">>, <<"g","i","t">>, <<"a","w","s">>,
    <<"a","z","u","r","e">>, <<"g","c","p">>, <<"l","i","n","u","x">>,
    <<"w","i","n","d","o","w","s">>, <<"p","o","w","e","r","s","h","e","l","l">>, <<"s","e","r","v","i","c","e","n","o","w">>,
    <<"j","i","r","a">>, <<"i","n","c","i","d","e","n","t">>, <<"s","l","a">>,
    <<"i","n","t","u","n","e">>, <<"m","d","m">>, <<"t","r","o","u","b","l","e","s","h","o","o","t","i","n","g">>,
    <<"a","u","t","o","m","a","t","i","o","n">>, <<"l","l","m">>, <<"p","r","o","m","p","t">>,
    <<"v","a","l","i","d","a","t","i","o","n">>
  >>

RED_FLAG_PHRASES ==
  <<
    <<"u","n","p","a","i","d">>, <<"p","a","y"," ","t","o"," ","a","p","p","l","y">>,
    <<"g","i","f","t"," ","c","a","r","d">>, <<"t","e","l","e","g","r","a","m">>,
    <<"w","h","a","t","s","a","p","p">>, <<"k","i","n","d","l","y">>,
    <<"w","i","r","e"," ","t","r","a","n","s","f","e","r">>, <<"c","h","e","c","k"," ","d","e","p","o","s","i","t">>,
    <<"r","e","m","o","t","e"," ","e","q","u","i","p","m","e","n","t"," ","f","e","e">>
  >>

TECH_SIGNAL_WORDS ==
  {
    <<"w","i","n","d","o","w","s">>, <<"l","i","n","u","x">>, <<"m","a","c">>,
    <<"m","i","c","r","o","s","o","f","t">>, <<"a","z","u","r","e">>, <<"a","w","s">>,
    <<"g","c","p">>, <<"a","c","t","i","v","e">>, <<"d","i","r","e","c","t","o","r","y">>,
    <<"v","p","n">>, <<"m","f","a">>, <<"i","n","t","u","n","e">>,
    <<"s","e","r","v","i","c","e","n","o","w">>, <<"j","i","r","a">>, <<"t","i","c","k","e","t">>,
    <<"i","n","c","i","d","e","n","t">>, <<"s","l","a">>, <<"e","n","d","p","o","i","n","t">>,
    <<"d","e","s","k","t","o","p">>, <<"h","a","r","d","w","a","r","e">>, <<"s","o","f","t","w","a","r","e">>,
    <<"n","e","t","w","o","r","k">>, <<"p","r","i","n","t","e","r">>, <<"o","u","t","l","o","o","k">>,
    <<"e","x","c","h","a","n","g","e">>, <<"o","3","6","5">>, <<"o","f","f","i","c","e">>,
    <<"s","q","l">>, <<"p","y","t","h","o","n">>, <<"a","p","i">>,
    <<"p","o","w","e","r","s","h","e","l","l">>, <<"s","e","c","u","r","i","t","y">>, <<"f","i","r","e","w","a","l","l">>,
    <<"r","o","u","t","e","r">>, <<"s","w","i","t","c","h">>, <<"s","e","r","v","e","r">>,
    <<"d","e","p","l","o","y","m","e","n","t">>, <<"i","m","a","g","i","n","g">>, <<"a","u","t","o","p","i","l","o","t">>,
    <<"s","c","c","m">>
  }

STOPWORDS ==
  {
    <<"t","h","e">>, <<"a","n","d">>, <<"o","r">>, <<"a">>,
    <<"a","n">>, <<"t","o">>, <<"o","f">>, <<"i","n">>,
    <<"f","o","r">>, <<"w","i","t","h">>, <<"o","n">>, <<"a","t">>,
    <<"b","y">>, <<"f","r","o","m">>, <<"a","s">>, <<"i","s">>,
    <<"a","r","e">>, <<"b","e">>, <<"t","h","i","s">>, <<"t","h","a","t">>,
    <<"t","h","e","s","e">>, <<"t","h","o","s","e">>, <<"y","o","u">>, <<"y","o","u","r">>,
    <<"w","e">>, <<"o","u","r">>, <<"w","i","l","l">>, <<"c","a","n">>,
    <<"m","a","y">>, <<"m","u","s","t">>, <<"s","h","o","u","l","d">>, <<"h","a","v","e">>,
    <<"h","a","s">>, <<"h","a","d">>, <<"t","h","e","i","r">>, <<"t","h","e","y">>,
    <<"t","h","e","m">>, <<"i","t">>, <<"i","t","s">>, <<"n","o","t">>,
    <<"b","u","t">>, <<"i","f">>, <<"t","h","a","n">>, <<"t","h","e","n">>,
    <<"a","b","o","u","t">>, <<"i","n","t","o">>, <<"o","v","e","r">>, <<"w","i","t","h","i","n">>,
    <<"a","c","r","o","s","s">>, <<"p","e","r">>, <<"i","n","c","l","u","d","i","n","g">>, <<"e","t","c">>,
    <<"j","o","i","n">>, <<"a","b","i","l","i","t","y">>, <<"p","e","r","f","o","r","m">>, <<"r","o","u","t","i","n","e">>,
    <<"h","a","n","d","l","e">>, <<"m","a","i","n","t","a","i","n">>, <<"c","o","l","l","a","b","o","r","a","t","e">>, <<"i","m","p","r","o","v","e","m","e","n","t">>,
    <<"k","n","o","w","l","e","d","g","e">>
  }

-----------------------------------------------------------------------------
(* Characters.  Python's str.lower(), str.upper(), and the classes \s and  *)
(* \w of re, restricted to the alphabet of the model.                      *)

LowerChars ==
  <<"a","b","c","d","e","f","g","h","i","j","k","l","m",
    "n","o","p","q","r","s","t","u","v","w","x","y","z">>

UpperChars ==
  <<"A","B","C","D","E","F","G","H","I","J","K","L","M",
    "N","O","P","Q","R","S","T","U","V","W","X","Y","Z">>

DigitChars == <<"0","1","2","3","4","5","6","7","8","9">>

BULLET_CHAR == "U+2022"

SeqRange(s) == {s[i] : i \in 1..Len(s)}

(* the sequence f as an explicit tuple *)
AsTuple(f) == <<>> \o f

(* the function f as an explicit table *)
AsTable(f) == f @@ <<>>

Idx(n) == AsTuple([i \in 1..n |-> i])

Take(s, k) == SubSeq(s, 1, IF k < Len(s) THEN k ELSE Len(s))

LowerSet == SeqRange(LowerChars)

UpperSet == SeqRange(UpperChars)

DigitSet == SeqRange(DigitChars)

LowerOf == [c \in UpperSet |-> LowerChars[CHOOSE i \in 1..26 : UpperChars[i] = c]]

UpperOf == [c \in LowerSet |-> UpperChars[CHOOSE i \in 1..26 : LowerChars[i] = c]]

ToLower(c) == IF c \in UpperSet THEN LowerOf[c] ELSE c

ToUpper(c) == IF c \in LowerSet THEN UpperOf[c] ELSE c

IsSpace(c) == c \in {" ", "\n", "\t"}

IsWordChar(c) == c \in LowerSet \/ c \in UpperSet \/ c \in DigitSet \/ c = "_"

IsTokenChar(c) == c \in LowerSet \/ c \in DigitSet \/ c \in {"+", "#", "."}

NotSpace(c) == ~IsSpace(c)

OtherCodePoints ==
  [c \in {"\t", "\n", " ", "!", "#", "(", ")", "*", "+", ",", "-", ".", ":",
          "?", "_", BULLET_CHAR} |->
     CASE c = "\t" -> 9   [] c = "\n" -> 10 [] c = " " -> 32 [] c = "!" -> 33
       [] c = "#" -> 35   [] c = "(" -> 40  [] c = ")" -> 41 [] c = "*" -> 42
       [] c = "+" -> 43   [] c = "," -> 44  [] c = "-" -> 45 [] c = "." -> 46
       [] c = ":" -> 58   [] c = "?" -> 63  [] c = "_" -> 95
       [] c = BULLET_CHAR -> 8226]

CodePoint(c) ==
  IF c \in LowerSet THEN 96 + (CHOOSE i \in 1..26 : LowerChars[i] = c)
  ELSE IF c \in UpperSet THEN 64 + (CHOOSE i \in 1..26 : UpperChars[i] = c)
  ELSE IF c \in DigitSet THEN 47 + (CHOOSE i \in 1..10 : DigitChars[i] = c)
  ELSE OtherCodePoints[c]

-----------------------------------------------------------------------------
(* Strings.                                                                *)

Lower(s) == AsTuple([i \in 1..Len(s) |-> ToLower(s[i])])

Upper(s) == AsTuple([i \in 1..Len(s) |-> ToUpper(s[i])])

(* str.strip() *)
Strip(s) ==
  LET keep == SelectSeq(Idx(Len(s)), LAMBDA i : ~IsSpace(s[i]))
  IN  IF keep = <<>> THEN <<>> ELSE SubSeq(s, keep[1], keep[Len(keep)])

(* re.sub(r"\s+", " ", s) *)
CollapseSpaces(s) ==
  LET idx == SelectSeq(Idx(Len(s)),
                       LAMBDA i : ~IsSpace(s[i]) \/ i = 1 \/ ~IsSpace(s[i-1]))
  IN  AsTuple([k \in 1..Len(idx) |-> IF IsSpace(s[idx[k]]) THEN " " ELSE s[idx[k]]])

normalize(text) == Lower(Strip(CollapseSpaces(text)))

MatchAt(t, i, w) ==
  /\ i >= 1
  /\ i + Len(w) - 1 <= Len(t)
  /\ \A k \in 1..Len(w) : t[i + k - 1] = w[k]

(* Python's `needle in hay` on strings *)
Contains(needle, hay) ==
  \E i \in 1..(Len(hay) - Len(needle) + 1) : MatchAt(hay, i, needle)

IsWordAt(t, k) == k >= 1 /\ k <= Len(t) /\ IsWordChar(t[k])

(* regex \b at the position between t[k] and t[k+1] *)
WordBoundary(t, k) == IsWordAt(t, k) # IsWordAt(t, k + 1)

(* a match of \bw\b starting at t[i] *)
WordMatchAt(t, i, w) ==
  /\ MatchAt(t, i, w)
  /\ WordBoundary(t, i - 1)
  /\ WordBoundary(t, i + Len(w) - 1)

(* re.search(rf"\b{re.escape(w)}\b", t) *)
(* faulty variant: the keyword as a substring, without word boundaries *)
WordSearch_substring(w, t) == Contains(w, t)

WordSearch(w, t) == \E i \in 1..(Len(t) - Len(w) + 1) : WordMatchAt(t, i, w)

(* a < b in Python's order on strings *)
LexLess(a, b) ==
  \E k \in 1..((IF Len(a) < Len(b) THEN Len(a) ELSE Len(b)) + 1) :
    /\ \A j \in 1..(k - 1) : a[j] = b[j]
    /\ \/ k > Len(a) /\ k <= Len(b)
       \/ k <= Len(a) /\ k <= Len(b) /\ CodePoint(a[k]) < CodePoint(b[k])

(* sorted(S, key=str.lower), for S whose members differ in lower case *)
SortedByLower(S) ==
  LET key  == AsTable([x \in S |-> Lower(x)])
      rank == AsTable([x \in S |-> Cardinality({y \in S : LexLess(key[y], key[x])})])
  IN  AsTuple([k \in 1..Cardinality(S) |-> CHOOSE x \in S : rank[x] = k - 1])

(* the maximal runs of characters satisfying In, left to right *)
MaximalRuns(t, In(_)) ==
  LET starts == SelectSeq(Idx(Len(t)),
                          LAMBDA i : In(t[i]) /\ (i = 1 \/ ~In(t[i-1])))
      ends   == SelectSeq(Idx(Len(t)),
                          LAMBDA i : In(t[i]) /\ (i = Len(t) \/ ~In(t[i+1])))
  IN  AsTuple([k \in 1..Len(starts) |-> SubSeq(t, starts[k], ends[k])])

(* str.split() with no argument *)
SplitWhitespace(s) == MaximalRuns(s, NotSpace)

RECURSIVE JoinFrom(_, _, _)
JoinFrom(ws, i, sep) ==
  IF i > Len(ws) THEN <<>>
  ELSE IF i = Len(ws) THEN ws[i]
  ELSE ws[i] \o sep \o JoinFrom(ws, i + 1, sep)

(* sep.join(ws) *)
Join(sep, ws) == JoinFrom(ws, 1, sep)

-----------------------------------------------------------------------------
(* Keyword matcher and red flags.                                          *)

extract_keywords(text, keyword_list) ==
  LET t     == normalize(text)
      found == {keyword_list[i] : i \in
                  {j \in 1..Len(keyword_list) :
                     WordSearch(Lower(keyword_list[j]), t)}}
  IN  SortedByLower(found)

(* faulty variant: the phrases are looked up in the text as written *)
find_red_flags_raw(text) ==
  SelectSeq(RED_FLAG_PHRASES, LAMBDA p : Contains(p, text))

find_red_flags(text) ==
  LET t == normalize(text)
  IN  SelectSeq(RED_FLAG_PHRASES, LAMBDA p : Contains(p, t))

-----------------------------------------------------------------------------
(* Tokenizer and phrase extractor.                                         *)

MIN_TOKEN_LEN == 2

tokenize_words(text) ==
  LET words == MaximalRuns(normalize(text), IsTokenChar)
  IN  SelectSeq(words, LAMBDA w : w \notin STOPWORDS /\ Len(w) > MIN_TOKEN_LEN)

(* max(tokens, key=len): the first token of the greatest length *)
LongestFirst(tokens) ==
  tokens[CHOOSE i \in 1..Len(tokens) :
           /\ \A j \in 1..Len(tokens) : Len(tokens[j]) <= Len(tokens[i])
           /\ \A j \in 1..(i - 1) : Len(tokens[j]) < Len(tokens[i])]

AnchorOf(p, tokens) == IF tokens = <<>> THEN p ELSE LongestFirst(tokens)

(* line 235: max(tokens, key=len) if tokens else p *)
Anchor(p) == AnchorOf(p, SplitWhitespace(p))

CountOf(counts, a) == IF a \in DOMAIN counts THEN counts[a] ELSE 0

(* line 236: counts[anchor] = counts.get(anchor, 0) + 1 *)
Bump(counts, anchor) ==
  AsTable([a \in DOMAIN counts \cup {anchor} |->
             IF a = anchor THEN CountOf(counts, anchor) + 1 ELSE counts[a]])

(* lines 237-238 *)
Keep(out, p, n, max_per_token) ==
  IF n <= max_per_token THEN Append(out, p) ELSE out

RECURSIVE RerankLoop(_, _, _, _, _)
RerankStep(phrases, i, counts, out, max_per_token, anchor) ==
  RerankLoop(phrases, i + 1, Bump(counts, anchor),
             Keep(out, phrases[i], CountOf(counts, anchor) + 1, max_per_token),
             max_per_token)

RerankLoop(phrases, i, counts, out, max_per_token) ==
  IF i > Len(phrases) THEN out
  ELSE RerankStep(phrases, i, counts, out, max_per_token, Anchor(phrases[i]))

(* faulty variant: one phrase more than the cap is let through *)
rerank_phrases_diverse_loose(phrases, max_per_token) ==
  RerankLoop(phrases, 1, <<>>, <<>>, max_per_token + 1)

rerank_phrases_diverse(phrases, max_per_token) ==
  RerankLoop(phrases, 1, <<>>, <<>>, max_per_token)

is_good_phrase(p) ==
  \E w \in SeqRange(SplitWhitespace(Lower(p))) : w \in TECH_SIGNAL_WORDS

(* lines 248-251: the n-grams of the tokens, in text order *)
NGrams(text, n) ==
  LET words == tokenize_words(text)
  IN  AsTuple([i \in 1..(Len(words) - n + 1) |->
                 Join(<<" ">>, SubSeq(words, i, i + n - 1))])

(* lines 253-255: the count of every distinct phrase *)
Frequencies(phrases) ==
  AsTable([p \in SeqRange(phrases) |->
             Cardinality({i \in 1..Len(phrases) : phrases[i] = p})])

(* the sort key of line 257: (-count, phrase) *)
RankedBefore(freq, p, q) ==
  freq[p] > freq[q] \/ (freq[p] = freq[q] /\ LexLess(p, q))

SortedItems(freq, rank) ==
  AsTuple([k \in 1..Cardinality(DOMAIN freq) |->
             <<CHOOSE x \in DOMAIN freq : rank[x] = k - 1,
               freq[CHOOSE x \in DOMAIN freq : rank[x] = k - 1]>>])

ItemsOf(freq) ==
  SortedItems(freq,
    AsTable([x \in DOMAIN freq |->
               Cardinality({y \in DOMAIN freq : RankedBefore(freq, y, x)})]))

(* lines 253-257: the distinct n-grams by (-count, phrase), with counts *)
RankedItems(phrases) == ItemsOf(Frequencies(phrases))

FALLBACK_BELOW == 10

Firsts(items) == AsTuple([k \in 1..Len(items) |-> items[k][1]])

(* lines 258-259 *)
RepeatedGood(items) ==
  SelectSeq(items, LAMBDA x : x[2] > 1 /\ is_good_phrase(x[1]))

(* lines 261-263 *)
WithFallback(items, repeated) ==
  IF Len(repeated) < FALLBACK_BELOW
  THEN SelectSeq(items, LAMBDA x : is_good_phrase(x[1]))
  ELSE repeated

FilteredItems(items) == Firsts(WithFallback(items, RepeatedGood(items)))

(* lines 248-263: repeated relevant phrases, or all relevant ones *)
FilteredPhrases(text, n) == FilteredItems(RankedItems(NGrams(text, n)))

EXTRACT_MAX_PER_TOKEN == 2

(* faulty variant: the rerank is left at its default cap of 3 *)
extract_phrases_default_cap(text, n, top_k) ==
  Take(rerank_phrases_diverse(FilteredPhrases(text, n), 3), top_k)

extract_phrases(text, n, top_k) ==
  Take(rerank_phrases_diverse(FilteredPhrases(text, n), EXTRACT_MAX_PER_TOKEN), top_k)

-----------------------------------------------------------------------------
(* Scorer.  A float is the exact rational [num, den].                      *)

Zero == [num |-> 0, den |-> 1]

Ratio(n, d) == [num |-> n, den |-> d]

COVERAGE_N == 3

COVERAGE_TOP_K == 25

(* line 276 *)
(* faulty variant: no job phrases counts as all of them covered *)
CoverageResult_vacuous(job_phrases, ov, ms) ==
  [coverage |-> IF job_phrases # <<>>
                THEN Ratio(Len(ov), Len(job_phrases)) ELSE Ratio(1, 1),
   overlap  |-> ov,
   missing  |-> ms]

CoverageResult(job_phrases, ov, ms) ==
  [coverage |-> IF job_phrases # <<>>
                THEN Ratio(Len(ov), Len(job_phrases)) ELSE Zero,
   overlap  |-> ov,
   missing  |-> ms]

(* lines 273-277 *)
CoverageOf(job_phrases, resume_norm) ==
  CoverageResult(job_phrases,
                 SelectSeq(job_phrases, LAMBDA p : Contains(p, resume_norm)),
                 SelectSeq(job_phrases, LAMBDA p : ~Contains(p, resume_norm)))

phrase_coverage(resume, job) ==
  CoverageOf(extract_phrases(job, COVERAGE_N, COVERAGE_TOP_K), normalize(resume))

(* round(x, 3) of the float nearest the rational q, in thousandths.  Off a *)
(* tie the float's error cannot change the result; on an exact tie it      *)
(* decides between the two neighbours, so both are possible.               *)
Round3(q) ==
  LET x  == 1000 * q.num
      fl == x \div q.den
      r2 == 2 * (x % q.den)
  IN  IF r2 < q.den THEN {fl}
      ELSE IF r2 > q.den THEN {fl + 1}
      ELSE {fl, fl + 1}

BANK_WEIGHT == 35

PHRASE_WEIGHT == 65

(* line 296: bank_cov * 0.35 + phrase_cov * 0.65 *)
Blend(bank, phrase) ==
  Ratio(BANK_WEIGHT * bank.num * phrase.den + PHRASE_WEIGHT * phrase.num * bank.den,
        100 * bank.den * phrase.den)

CONF_BASE == 45

CONF_SPAN == 50

CONF_CAP == 95

CONF_FULL_AT == 12

(* line 294: min(0.95, 0.45 + 0.5 * min(1.0, n / 12.0)) *)
Confidence(n) ==
  LET frac == IF n < CONF_FULL_AT THEN Ratio(n, CONF_FULL_AT) ELSE Ratio(1, 1)
      raw  == Ratio(CONF_BASE * frac.den + CONF_SPAN * frac.num, 100 * frac.den)
  IN  IF raw.num * 100 > CONF_CAP * raw.den THEN Ratio(CONF_CAP, 100) ELSE raw

PHRASE_TAG == <<"[","P","H","R","A","S","E","]"," ">>

MAX_OVERLAP_PHRASES == 10

MAX_MISSING_PHRASES == 15

Tagged(phrases) == AsTuple([k \in 1..Len(phrases) |-> PHRASE_TAG \o phrases[k]])

-----------------------------------------------------------------------------
(* Edit suggester.                                                         *)

BULLET_MARKERS == {"-", "*", BULLET_CHAR}

SENTENCE_END == {".", "!", "?"}

MIN_SENTENCE_LEN == 40

MAX_SENTENCES == 8

MAX_BULLETS == 20

(* str.splitlines(); "\n" is the only line break of the alphabet *)
SplitLines(s) ==
  LET breaks == SelectSeq(Idx(Len(s)), LAMBDA i : s[i] = "\n")
      pieces == AsTuple([k \in 1..(Len(breaks) + 1) |->
                   SubSeq(s, IF k = 1 THEN 1 ELSE breaks[k-1] + 1,
                             IF k <= Len(breaks) THEN breaks[k] - 1 ELSE Len(s))])
  IN  IF pieces[Len(pieces)] = <<>> THEN SubSeq(pieces, 1, Len(pieces) - 1)
      ELSE pieces

(* re.match(r"^(\-|\*|U+2022)\s+", ln) *)
IsBulletLine(ln) == Len(ln) >= 2 /\ ln[1] \in BULLET_MARKERS /\ IsSpace(ln[2])

(* re.split(r"(?<=[.!?])\s+", t) *)
SplitSentences(t) ==
  LET starts == SelectSeq(Idx(Len(t)),
                  LAMBDA i : IsSpace(t[i]) /\ i > 1 /\ t[i-1] \in SENTENCE_END)
      RunEnd(i) == CHOOSE j \in i..Len(t) :
                     /\ \A k \in i..j : IsSpace(t[k])
                     /\ (j = Len(t) \/ ~IsSpace(t[j+1]))
  IN  AsTuple([k \in 1..(Len(starts) + 1) |->
         SubSeq(t, IF k = 1 THEN 1 ELSE RunEnd(starts[k-1]) + 1,
                   IF k <= Len(starts) THEN starts[k] - 1 ELSE Len(t))])

split_bullets(text) ==
  LET raw      == SplitLines(text)
      lines    == AsTuple([k \in 1..Len(raw) |-> Strip(raw[k])])
      marked   == SelectSeq(lines, IsBulletLine)
      found    == AsTuple([k \in 1..Len(marked) |->
                             Strip(SubSeq(marked[k], 2, Len(marked[k])))])
      sentences == SplitSentences(Strip(text))
      long     == SelectSeq(sentences, LAMBDA s : Len(Strip(s)) > MIN_SENTENCE_LEN)
      fallback == Take(AsTuple([k \in 1..Len(long) |-> Strip(long[k])]), MAX_SENTENCES)
  IN  Take(IF found = <<>> THEN fallback ELSE found, MAX_BULLETS)

FILLER_WORDS ==
  {<<"v","e","r","y">>, <<"r","e","a","l","l","y">>, <<"j","u","s","t">>}

HIGH_SIGNAL_KEYWORDS ==
  {<<"t","r","o","u","b","l","e","s","h","o","o","t","i","n","g">>,
   <<"a","u","t","o","m","a","t","i","o","n">>,
   <<"i","n","c","i","d","e","n","t">>, <<"s","l","a">>, <<"a","p","i">>,
   <<"s","q","l">>, <<"p","y","t","h","o","n">>, <<"g","i","t">>}

TOOL_KEYWORDS ==
  {<<"p","y","t","h","o","n">>, <<"s","q","l">>, <<"a","p","i">>, <<"g","i","t">>}

MIN_BULLET_LEN == 20

(* re.sub(r"\bvery\b|\breally\b|\bjust\b", "", b, flags=re.IGNORECASE): the    *)
(* characters of b outside every whole-word match of a filler word; matches *)
(* cannot overlap, a word having no boundary inside it                      *)
InFiller(lb, k) ==
  \E w \in FILLER_WORDS : \E i \in (k - Len(w) + 1)..k : WordMatchAt(lb, i, w)

KeptIndexes(b, lb) == SelectSeq(Idx(Len(b)), LAMBDA k : ~InFiller(lb, k))

Pick(b, idx) == AsTuple([j \in 1..Len(idx) |-> b[idx[j]]])

RemoveFillers(b) == Pick(b, KeptIndexes(b, Lower(b)))

(* re.sub(r"\s{2,}", " ", s) *)
SqueezeSpaces(s) ==
  LET idx == SelectSeq(Idx(Len(s)),
                       LAMBDA i : ~IsSpace(s[i]) \/ i = 1 \/ ~IsSpace(s[i-1]))
  IN  AsTuple([k \in 1..Len(idx) |->
         LET i == idx[k]
         IN  IF IsSpace(s[i]) /\ i < Len(s) /\ IsSpace(s[i+1]) THEN " " ELSE s[i]])

(* lines 165-166 *)
Tighten(b) == SqueezeSpaces(Strip(RemoveFillers(b)))

(* lines 168-174: the first eligible keyword, as <<kw>>, or <<>> for None *)
PickKeyword(b, target_keywords) ==
  LET eligible == SelectSeq(target_keywords,
                    LAMBDA kw : /\ ~Contains(Lower(kw), normalize(b))
                                /\ Lower(kw) \in HIGH_SIGNAL_KEYWORDS)
  IN  Take(eligible, 1)

TOOLS_OPEN ==
  <<" ","(","T","o","o","l","s"," ","u","s","e","d"," ","w","h","e","r","e"," ",
    "a","p","p","l","i","c","a","b","l","e",":"," ">>

FOCUS_OPEN == <<" ","(","F","o","c","u","s",":"," ">>

PAREN_CLOSE == <<".",")">>

ToolsParenthetical(kw) ==
  TOOLS_OPEN \o (IF kw = <<"s","q","l">> THEN Upper(kw) ELSE kw) \o PAREN_CLOSE

FocusParenthetical(kw) == FOCUS_OPEN \o kw \o PAREN_CLOSE

(* faulty variant: only the empty bullet is skipped *)
TooShort_emptyOnly(b) == b = <<>>

(* line 162: not b or len(b) < 20 *)
TooShort(b) == b = <<>> \/ Len(b) < MIN_BULLET_LEN

(* faulty variant: the confirmation flag is left at its default *)
SuggestedEdit_unflagged(original, suggestion, rationale, needs_confirmation) ==
  [target             |-> "bullet",
   original           |-> original,
   suggestion         |-> suggestion,
   rationale          |-> rationale,
   needs_confirmation |-> FALSE]

(* the dataclass, as safe_rewrite_bullet builds it (target "bullet") *)
SuggestedEdit(original, suggestion, rationale, needs_confirmation) ==
  [target             |-> "bullet",
   original           |-> original,
   suggestion         |-> suggestion,
   rationale          |-> rationale,
   needs_confirmation |-> needs_confirmation]

(* the SuggestedEdit as <<edit>>, or <<>> for None *)
safe_rewrite_bullet(bullet, target_keywords) ==
  LET b         == Strip(bullet)
      tightened == Tighten(b)
      add_kw    == PickKeyword(b, target_keywords)
      is_tool   == add_kw # <<>> /\ Lower(add_kw[1]) \in TOOL_KEYWORDS
      suggestion ==
        IF add_kw = <<>> THEN tightened
        ELSE IF is_tool THEN tightened \o ToolsParenthetical(add_kw[1])
        ELSE tightened \o FocusParenthetical(add_kw[1])
      rationale ==
        IF add_kw = <<>> THEN [text |-> "Tightened wording for clarity.", kw |-> <<>>]
        ELSE IF is_tool
        THEN [text |-> "Tightened wording for clarity. Added a tool mention to align with the posting - confirm you actually used {kw}.",
              kw |-> add_kw[1]]
        ELSE [text |-> "Tightened wording for clarity. Added focus keyword '{kw}' to better match the posting.",
              kw |-> add_kw[1]]
  IN  IF TooShort(b) THEN <<>>
      ELSE IF suggestion = b THEN <<>>
      ELSE << SuggestedEdit(b, suggestion, rationale, is_tool) >>

MAX_EDITED_BULLETS == 8

RECURSIVE EditsFrom(_, _, _)
EditsFrom(bs, i, target_keywords) ==
  IF i > Len(bs) THEN <<>>
  ELSE safe_rewrite_bullet(bs[i], target_keywords)
         \o EditsFrom(bs, i + 1, target_keywords)

-----------------------------------------------------------------------------
(* Interview pack.                                                         *)

MAX_TALKING_KEYWORDS == 10

INTERVIEW_QUESTIONS ==
  <<"Walk me through your background and how it fits this role.",
    "Tell me about a tough troubleshooting issue you solved - what was your process?",
    "How do you prioritize multiple incoming requests or tickets?",
    "Describe a time you improved a process or automated something.",
    "How do you communicate with non-technical stakeholders during an incident?",
    "What's your approach to documenting work and building repeatable playbooks?",
    "Tell me about a time you made a mistake - how did you handle it?",
    "How do you ensure accuracy and avoid assumptions when diagnosing problems?",
    "What tools or systems have you used to manage work (ticketing, docs, version control)?",
    "What would your first 30 days look like in this role?">>

build_interview_pack(job, ov, ms) ==
  LET talking_points ==
        (IF ov # <<>>
         THEN << [text |-> "Emphasize matching keywords you already have: {kws}.",
                  kws  |-> Take(ov, MAX_TALKING_KEYWORDS)] >>
         ELSE <<>>)
        \o (IF ms # <<>>
            THEN << [text |-> "Prepare honest answers for missing areas: {kws} (frame as 'learning plan').",
                     kws  |-> Take(ms, MAX_TALKING_KEYWORDS)] >>
            ELSE <<>>)
        \o << [text |-> "Use STAR format for behavioral answers (Situation, Task, Action, Result).",
               kws  |-> <<>>],
              [text |-> "Keep claims grounded - no tool name-dropping unless you've used it.",
               kws  |-> <<>>] >>
  IN  [questions |-> INTERVIEW_QUESTIONS, talking_points |-> talking_points]

ROLE_SUMMARY ==
  "This agent compares your resume text to the job posting, identifies keyword overlap/gaps, and suggests safe, honest edits that improve alignment without inventing experience."

-----------------------------------------------------------------------------
(* run_agent, one action per stage.                                        *)

(* line 287 *)
BankOverlap(rkws, jkws) == SortedByLower(SeqRange(rkws) \cap SeqRange(jkws))

(* line 288 *)
(* faulty variant: the resume's keywords are not taken out *)
BankMissing_all(rkws, jkws) == SortedByLower(SeqRange(jkws))

BankMissing(rkws, jkws) == SortedByLower(SeqRange(jkws) \ SeqRange(rkws))

(* line 290 *)
BankCoverage(ov, jkws) == IF jkws # <<>> THEN Ratio(Len(ov), Len(jkws)) ELSE Zero

(* lines 284-288 *)
ExtractKeywords ==
  /\ pc = "start"
  /\ resume_kws' = extract_keywords(resume_text, TECH_KEYWORDS)
  /\ job_kws' = extract_keywords(job_text, TECH_KEYWORDS)
  /\ overlap' = BankOverlap(resume_kws', job_kws')
  /\ missing' = BankMissing(resume_kws', job_kws')
  /\ pc' = "coverage"
  /\ UNCHANGED <<resume_text, job_text, bank_cov, phrase_cov, phrase_overlap,
                 phrase_missing, red_flags, confidence, blended, scores, bullets,
                 suggested_edits, packet, rr_phrases, rr_cap, rr_out>>

(* lines 290-291 *)
ComputeCoverage ==
  /\ pc = "coverage"
  /\ bank_cov' = BankCoverage(overlap, job_kws)
  /\ LET r == phrase_coverage(resume_text, job_text)
     IN  /\ phrase_cov' = r.coverage
         /\ phrase_overlap' = r.overlap
         /\ phrase_missing' = r.missing
  /\ pc' = "score"
  /\ UNCHANGED <<resume_text, job_text, resume_kws, job_kws, overlap, missing,
                 red_flags, confidence, blended, scores, bullets,
                 suggested_edits, packet, rr_phrases, rr_cap, rr_out>>

(* faulty variant: the confidence is taken from the overlap with the resume *)
ScoreMatch_overlap ==
  /\ pc = "score"
  /\ red_flags' = find_red_flags(job_text)
  /\ confidence' = Confidence(Len(overlap))
  /\ blended' = Blend(bank_cov, phrase_cov)
  /\ \E kc \in Round3(blended'), cf \in Round3(confidence') :
       scores' = [keyword_coverage |-> kc,
                  overlap_keywords |->
                    overlap \o Tagged(Take(phrase_overlap, MAX_OVERLAP_PHRASES)),
                  missing_keywords |->
                    missing \o Tagged(Take(phrase_missing, MAX_MISSING_PHRASES)),
                  red_flags        |-> red_flags',
                  confidence       |-> cf]
  /\ pc' = "edits"
  /\ UNCHANGED <<resume_text, job_text, resume_kws, job_kws, overlap, missing,
                 bank_cov, phrase_cov, phrase_overlap, phrase_missing, bullets,
                 suggested_edits, packet, rr_phrases, rr_cap, rr_out>>

(* lines 293-304 *)
ScoreMatch ==
  /\ pc = "score"
  /\ red_flags' = find_red_flags(job_text)
  /\ confidence' = Confidence(Len(job_kws))
  /\ blended' = Blend(bank_cov, phrase_cov)
  /\ \E kc \in Round3(blended'), cf \in Round3(confidence') :
       scores' = [keyword_coverage |-> kc,
                  overlap_keywords |->
                    overlap \o Tagged(Take(phrase_overlap, MAX_OVERLAP_PHRASES)),
                  missing_keywords |->
                    missing \o Tagged(Take(phrase_missing, MAX_MISSING_PHRASES)),
                  red_flags        |-> red_flags',
                  confidence       |-> cf]
  /\ pc' = "edits"
  /\ UNCHANGED <<resume_text, job_text, resume_kws, job_kws, overlap, missing,
                 bank_cov, phrase_cov, phrase_overlap, phrase_missing, bullets,
                 suggested_edits, packet, rr_phrases, rr_cap, rr_out>>

(* lines 306-312 *)
SuggestEdits ==
  /\ pc = "edits"
  /\ bullets' = split_bullets(resume_text)
  /\ suggested_edits' = EditsFrom(Take(bullets', MAX_EDITED_BULLETS), 1, missing)
  /\ pc' = "pack"
  /\ UNCHANGED <<resume_text, job_text, resume_kws, job_kws, overlap, missing,
                 bank_cov, phrase_cov, phrase_overlap, phrase_missing, red_flags,
                 confidence, blended, scores, packet, rr_phrases, rr_cap, rr_out>>

(* lines 314-328 *)
ReturnPacket ==
  /\ pc = "pack"
  /\ LET pack == build_interview_pack(job_text, overlap, missing)
     IN  packet' = [role_summary        |-> ROLE_SUMMARY,
                    match_scores        |-> scores,
                    suggested_edits     |-> suggested_edits,
                    interview_questions |-> pack.questions,
                    talking_points      |-> pack.talking_points]
  /\ pc' = "done"
  /\ UNCHANGED <<resume_text, job_text, resume_kws, job_kws, overlap, missing,
                 bank_cov, phrase_cov, phrase_overlap, phrase_missing, red_flags,
                 confidence, blended, scores, bullets, suggested_edits,
                 rr_phrases, rr_cap, rr_out>>

Next ==
  \/ ExtractKeywords
  \/ ComputeCoverage
  \/ ScoreMatch
  \/ SuggestEdits
  \/ ReturnPacket

(* a direct call of rerank_phrases_diverse, lines 230-239 *)
CallRerank ==
  /\ pc = "call_rerank"
  /\ rr_out' = rerank_phrases_diverse(rr_phrases, rr_cap)
  /\ pc' = "returned_rerank"
  /\ UNCHANGED <<resume_text, job_text, resume_kws, job_kws, overlap, missing,
                 bank_cov, phrase_cov, phrase_overlap, phrase_missing, red_flags,
                 confidence, blended, scores, bullets, suggested_edits, packet,
                 rr_phrases, rr_cap>>

NextRerank == CallRerank

-----------------------------------------------------------------------------
(* Inputs.                                                                 *)

(* the sequences over S of length at most n *)
RECURSIVE SeqsUpTo(_, _)
SeqsUpTo(S, n) ==
  IF n = 0 THEN {<<>>}
  ELSE LET shorter == SeqsUpTo(S, n - 1)
       IN  shorter \cup {Append(s, x) : s \in shorter, x \in S}

(* the locals of run_agent before its first statement *)
FreshLocals ==
  /\ resume_kws = <<>>
  /\ job_kws = <<>>
  /\ overlap = <<>>
  /\ missing = <<>>
  /\ bank_cov = Zero
  /\ phrase_cov = Zero
  /\ phrase_overlap = <<>>
  /\ phrase_missing = <<>>
  /\ red_flags = <<>>
  /\ confidence = Zero
  /\ blended = Zero
  /\ scores = <<>>
  /\ bullets = <<>>
  /\ suggested_edits = <<>>
  /\ packet = <<>>

(* run_agent(r, j) is entered *)
Entry(r, j) ==
  /\ pc = "start"
  /\ resume_text = r
  /\ job_text = j
  /\ FreshLocals
  /\ rr_phrases = <<>>
  /\ rr_cap = 0
  /\ rr_out = <<>>

SCENARIO_JOB ==
  <<"P","y","t","h","o","n",","," ","S","Q","L",","," ","a","n","d"," ",
    "i","n","c","i","d","e","n","t"," ","m","a","n","a","g","e","m","e",
    "n","t"," ","v","i","a"," ","S","e","r","v","i","c","e","N","o","w",
    ","," ","S","L","A"," ","t","r","a","c","k","i","n","g"," ","r","e",
    "q","u","i","r","e","d">>

SCENARIO_RESUME ==
  <<"H","a","n","d","l","e","d"," ","i","n","c","i","d","e","n","t","s",
    " ","a","n","d"," ","S","L","A"," ","t","r","a","c","k","i","n","g",
    ","," ","u","s","e","d"," ","S","Q","L"," ","d","a","i","l","y">>

(* a posting that names every bank keyword *)
JOB_ALL_KEYWORDS == Join(<<",", " ">>, TECH_KEYWORDS)

(* a resume without bullet markers *)
RESUME_SENTENCES ==
  <<"I"," ","r","e","a","l","l","y"," ","r","e","s","o","l","v","e","d",
    " ","t","i","c","k","e","t","s"," ","f","o","r"," ","t","h","e"," ",
    "h","e","l","p","d","e","s","k"," ","t","e","a","m"," ","i","n"," ",
    "t","i","m","e","."," ","K","e","p","t"," ","n","o","t","e","s",".">>

RESUME_LINES ==
  { <<"-"," ","I"," ","j","u","s","t"," ","b","u","i","l","t"," ","P","y",
      "t","h","o","n"," ","t","o","o","l","s">>,
    <<"-"," ","F","i","x","e","d"," ","S","Q","L"," ","b","u","g","s">>,
    <<"*"," ","H","a","n","d","l","e","d"," ","i","n","c","i","d","e","n",
      "t","s"," ","a","n","d"," ","S","L","A"," ","t","r","a","c","k","i",
      "n","g"," ","d","a","i","l","y">>,
    <<"-"," ","C","l","o","s","e","d"," ","t","i","c","k","e","t","s"," ",
      "(","T","o","o","l","s"," ","u","s","e","d"," ","w","h","e","r","e",
      " ","a","p","p","l","i","c","a","b","l","e",":"," ","g","i","t",".",
      ")">> }

JOB_WORDS ==
  { <<"P","y","t","h","o","n",",">>,
    <<"s","q","l">>,
    <<"i","n","c","i","d","e","n","t">> }

MaxResumeLines == 2

MaxJobWords == 2

ResumeTexts ==
  {Join(<<"\n">>, ls) : ls \in SeqsUpTo(RESUME_LINES, MaxResumeLines)}
    \cup {SCENARIO_RESUME, RESUME_SENTENCES}

JobTexts ==
  {Join(<<" ">>, ws) : ws \in SeqsUpTo(JOB_WORDS, MaxJobWords)}
    \cup {SCENARIO_JOB, JOB_ALL_KEYWORDS}

Init == \E r \in ResumeTexts, j \in JobTexts : Entry(r, j)

Spec == Init /\ [][Next]_vars

(* Postings of a few words, scored against themselves or an empty resume. *)
PHRASE_WORDS ==
  { <<"s","q","l">>,
    <<"s","e","r","v","i","c","e","n","o","w">>,
    <<"a","n","d">> }

MaxPhraseWords == 5

PhraseTexts == {Join(<<" ">>, ws) : ws \in SeqsUpTo(PHRASE_WORDS, MaxPhraseWords)}

InitPhrases == \E j \in PhraseTexts : \E r \in {j, <<>>} : Entry(r, j)

SpecPhrases == InitPhrases /\ [][Next]_vars

(* Texts that contain the two sentences of the scenario. *)
JOB_BEFORE ==
  { <<>>,
    <<"W","e"," ","n","e","e","d",":"," ">>,
    <<"S","u","p","p","o","r","t"," ","a","n","a","l","y","s","t","\n">> }

JOB_AFTER ==
  { <<>>,
    <<".">>,
    <<"\n","B","o","n","u","s",":"," ","g","i","t">> }

RESUME_BEFORE ==
  { <<>>,
    <<"-"," ">>,
    <<"S","u","m","m","a","r","y",":"," ">> }

RESUME_AFTER ==
  { <<>>,
    <<".">>,
    <<" ","p","e","r"," ","i","n","c","i","d","e","n","t">> }

InitScenario ==
  \E jb \in JOB_BEFORE, ja \in JOB_AFTER, rb \in RESUME_BEFORE, ra \in RESUME_AFTER :
    Entry(rb \o SCENARIO_RESUME \o ra, jb \o SCENARIO_JOB \o ja)

SpecScenario == InitScenario /\ [][Next]_vars

(* Postings that contain "wire transfer" and "gift card", in either order. *)
WIRE_TRANSFER_FORMS ==
  { <<"w","i","r","e"," ","t","r","a","n","s","f","e","r">>,
    <<"W","i","r","e"," ","T","r","a","n","s","f","e","r">>,
    <<"w","i","r","e","\n","t","r","a","n","s","f","e","r">>,
    <<"w","i","r","e"," "," ","t","r","a","n","s","f","e","r","s">> }

GIFT_CARD_FORMS ==
  { <<"g","i","f","t"," ","c","a","r","d">>,
    <<"G","I","F","T"," ","C","A","R","D">>,
    <<"g","i","f","t"," ","c","a","r","d","s">> }

FLAG_JOINERS ==
  { <<" ","o","r"," ">>,
    <<","," ">>,
    <<".","\n","P","a","y"," ","b","y"," ">> }

FLAG_BEFORE ==
  { <<>>,
    <<"S","e","n","d"," ","a"," ">> }

FLAG_RESUMES ==
  { <<>>,
    <<"I"," ","n","e","v","e","r"," ","s","e","n","d"," ","a"," ","w","i",
      "r","e"," ","t","r","a","n","s","f","e","r"," ","o","r"," ","a"," ",
      "g","i","f","t"," ","c","a","r","d">>,
    <<"-"," ","H","a","n","d","l","e","d"," ","i","n","c","i","d","e","n",
      "t","s"," ","a","n","d"," ","S","L","A"," ","t","r","a","c","k","i",
      "n","g"," ","d","a","i","l","y">> }

FlagJobTexts ==
  {b \o x \o j \o y : b \in FLAG_BEFORE, j \in FLAG_JOINERS,
                       x \in WIRE_TRANSFER_FORMS, y \in GIFT_CARD_FORMS}
    \cup {b \o y \o j \o x : b \in FLAG_BEFORE, j \in FLAG_JOINERS,
                            x \in WIRE_TRANSFER_FORMS, y \in GIFT_CARD_FORMS}

InitRedFlags == \E j \in FlagJobTexts, r \in FLAG_RESUMES : Entry(r, j)

SpecRedFlags == InitRedFlags /\ [][Next]_vars

(* Direct calls of rerank_phrases_diverse. *)
RERANK_PHRASES ==
  { <<"s","q","l"," ","a","p","i">>,
    <<"s","q","l"," ","a","w","s">>,
    <<"a","p","i"," ","s","q","l">>,
    <<"u","s","e"," ","s","q","l"," ","s","e","r","v","e","r">>,
    <<>>,
    <<" ">> }

MaxPhrases == 3

MaxCap == 2

InitRerank ==
  \E ps \in SeqsUpTo(RERANK_PHRASES, MaxPhrases), c \in 0..MaxCap :
    /\ pc = "call_rerank"
    /\ resume_text = <<>>
    /\ job_text = <<>>
    /\ FreshLocals
    /\ rr_phrases = ps
    /\ rr_cap = c
    /\ rr_out = <<>>

SpecRerank == InitRerank /\ [][NextRerank]_vars

-----------------------------------------------------------------------------
(* Properties.                                                             *)

AfterKeywords == pc \in {"coverage", "score", "edits", "pack", "done"}

AfterCoverage == pc \in {"score", "edits", "pack", "done"}

AfterScore == pc \in {"edits", "pack", "done"}

AfterEdits == pc \in {"pack", "done"}

KW_INCIDENT == <<"i","n","c","i","d","e","n","t">>

KW_PYTHON == <<"p","y","t","h","o","n">>

KW_SERVICENOW == <<"s","e","r","v","i","c","e","n","o","w">>

KW_SLA == <<"s","l","a">>

KW_SQL == <<"s","q","l">>

FLAG_GIFT_CARD == <<"g","i","f","t"," ","c","a","r","d">>

FLAG_WIRE_TRANSFER == <<"w","i","r","e"," ","t","r","a","n","s","f","e","r">>

Occurrences(s, x) == Cardinality({i \in 1..Len(s) : s[i] = x})

(* the bank keywords that occur in the text as whole words *)
BankKeywordsIn(text) ==
  {kw \in SeqRange(TECH_KEYWORDS) : WordSearch(kw, normalize(text))}

(* C1: once run_agent has computed them, the bank overlap and the bank     *)
(* missing list partition the bank keywords of the job text: their union   *)
(* is extract_keywords(job_text, TECH_KEYWORDS), they share no keyword,    *)
(* and every job keyword occurs exactly once across the two lists; the     *)
(* reported lists begin with them, the tagged phrases following.           *)
C1_BankPartition ==
  AfterKeywords =>
    /\ SeqRange(overlap) \cup SeqRange(missing)
         = SeqRange(extract_keywords(job_text, TECH_KEYWORDS))
    /\ SeqRange(overlap) \cap SeqRange(missing) = {}
    /\ \A kw \in BankKeywordsIn(job_text) : Occurrences(overlap \o missing, kw) = 1
    /\ Len(overlap) + Len(missing) = Cardinality(BankKeywordsIn(job_text))
    /\ pc = "done" =>
         /\ Take(packet.match_scores.overlap_keywords, Len(overlap)) = overlap
         /\ Take(packet.match_scores.missing_keywords, Len(missing)) = missing

C1_Witness ==
  /\ pc = "done"
  /\ Len(overlap) >= 1
  /\ Len(missing) >= 2
  /\ Len(packet.match_scores.missing_keywords) > Len(missing)

(* C2: when the resume is the job text itself and the job text has         *)
(* phrases, phrase_coverage returns coverage 1.0.                          *)
C2_IdenticalTextFullCoverage ==
  (/\ AfterCoverage
   /\ resume_text = job_text
   /\ extract_phrases(job_text, COVERAGE_N, COVERAGE_TOP_K) # <<>>)
    => phrase_cov.num = phrase_cov.den

(* C3, as claimed: with the scenario's sentences in the job text and in    *)
(* the resume, the bank overlap includes incident, sla and sql, the bank   *)
(* missing list includes python, and keyword_coverage is above 0.          *)
C3_ScenarioAsClaimed ==
  (/\ pc = "done"
   /\ Contains(SCENARIO_JOB, job_text)
   /\ Contains(SCENARIO_RESUME, resume_text))
    => /\ {KW_INCIDENT, KW_SLA, KW_SQL} \subseteq SeqRange(overlap)
       /\ KW_PYTHON \in SeqRange(missing)
       /\ packet.match_scores.keyword_coverage > 0

(* C3, amended: with the scenario's sentences in the job text and in the   *)
(* resume, the bank overlap includes sla and sql and keyword_coverage is   *)
(* above 0; incident is in the overlap only when the resume has the whole  *)
(* word "incident" elsewhere ("incidents" does not match) and is missing   *)
(* otherwise; python is missing when the job has it as a whole word and    *)
(* the resume does not.  With exactly the two sentences the overlap is     *)
(* [sla, sql], the missing list [incident, python, servicenow] and the     *)
(* keyword_coverage 0.14.                                                  *)
C3_ScenarioAmended ==
  (/\ pc = "done"
   /\ Contains(SCENARIO_JOB, job_text)
   /\ Contains(SCENARIO_RESUME, resume_text))
    => /\ {KW_SLA, KW_SQL} \subseteq SeqRange(overlap)
       /\ packet.match_scores.keyword_coverage > 0
       /\ KW_INCIDENT \in SeqRange(overlap)
            <=> KW_INCIDENT \in BankKeywordsIn(resume_text)
       /\ KW_INCIDENT \notin BankKeywordsIn(resume_text)
            => KW_INCIDENT \in SeqRange(missing)
       /\ (KW_PYTHON \in BankKeywordsIn(job_text)
             /\ KW_PYTHON \notin BankKeywordsIn(resume_text))
            => KW_PYTHON \in SeqRange(missing)
       /\ (job_text = SCENARIO_JOB /\ resume_text = SCENARIO_RESUME)
            => /\ overlap = <<KW_SLA, KW_SQL>>
               /\ missing = <<KW_INCIDENT, KW_PYTHON, KW_SERVICENOW>>
               /\ packet.match_scores.keyword_coverage = 140

C3_Witness ==
  /\ pc = "done"
  /\ job_text = SCENARIO_JOB
  /\ resume_text = SCENARIO_RESUME
  /\ KW_INCIDENT \in SeqRange(missing)

(* the job text has both phrases and no other red-flag phrase *)
HasTheTwoFlags(text) ==
  \A p \in SeqRange(RED_FLAG_PHRASES) :
    Contains(p, normalize(text)) <=> p \in {FLAG_GIFT_CARD, FLAG_WIRE_TRANSFER}

(* C4, as claimed: a job text with "wire transfer" and "gift card" and no  *)
(* other red-flag phrase gives red_flags ["wire transfer", "gift card"].   *)
C4_FlagsAsClaimed ==
  (AfterScore /\ HasTheTwoFlags(job_text))
    => red_flags = <<FLAG_WIRE_TRANSFER, FLAG_GIFT_CARD>>

(* C4, amended: such a job text gives red_flags ["gift card", "wire        *)
(* transfer"], the order of RED_FLAG_PHRASES, whatever the resume and      *)
(* whatever the order of the two phrases in the text.                      *)
C4_FlagsInBankOrder ==
  (AfterScore /\ HasTheTwoFlags(job_text))
    => /\ red_flags = <<FLAG_GIFT_CARD, FLAG_WIRE_TRANSFER>>
       /\ scores.red_flags = red_flags
       /\ pc = "done" => packet.match_scores.red_flags = red_flags

C4_Witness ==
  /\ pc = "done"
  /\ HasTheTwoFlags(job_text)
  /\ MatchAt(job_text, 1, FLAG_WIRE_TRANSFER)
  /\ resume_text # <<>>
  /\ packet.match_scores.red_flags = <<FLAG_GIFT_CARD, FLAG_WIRE_TRANSFER>>

(* the subsequence of s at the indexes in I *)
AtIndexes(s, I) == SelectSeq(Idx(Len(s)), LAMBDA i : i \in I)

IsSubsequence(a, b) ==
  \E I \in SUBSET (1..Len(b)) :
    /\ Len(AtIndexes(b, I)) = Len(a)
    /\ \A k \in 1..Len(a) : a[k] = b[AtIndexes(b, I)[k]]

(* w is the longest word of p, the first one of that length *)
IsAnchorWord(w, p) ==
  \E i \in 1..Len(SplitWhitespace(p)) :
    /\ SplitWhitespace(p)[i] = w
    /\ \A j \in 1..Len(SplitWhitespace(p)) :
         /\ Len(SplitWhitespace(p)[j]) <= Len(w)
         /\ j < i => Len(SplitWhitespace(p)[j]) < Len(w)

(* C5: the result of rerank_phrases_diverse holds at most max_per_token    *)
(* phrases with the same anchor word, the longest word of the phrase and   *)
(* the first on ties (a phrase without words counts under its own text),   *)
(* and it is a subsequence of the argument.                                *)
C5_RerankCap ==
  pc = "returned_rerank" =>
    /\ \A w \in {Anchor(rr_phrases[i]) : i \in 1..Len(rr_phrases)} :
         Cardinality({k \in 1..Len(rr_out) :
                        \/ IsAnchorWord(w, rr_out[k])
                        \/ SplitWhitespace(rr_out[k]) = <<>> /\ rr_out[k] = w})
           <= rr_cap
    /\ \A i \in 1..Len(rr_phrases) :
         SplitWhitespace(rr_phrases[i]) # <<>>
           => IsAnchorWord(Anchor(rr_phrases[i]), rr_phrases[i])
    /\ IsSubsequence(rr_out, rr_phrases)

C5_Witness ==
  /\ pc = "returned_rerank"
  /\ rr_cap = 2
  /\ Len(rr_out) < Len(rr_phrases)
  /\ \E i, j \in 1..Len(rr_out) :
       /\ rr_out[i] # rr_out[j]
       /\ Anchor(rr_out[i]) = Anchor(rr_out[j])
       /\ SplitWhitespace(rr_out[i]) # <<>>

EditSet == SeqRange(suggested_edits)

(* what safe_rewrite_bullet appended to the tightened bullet of edit e, and *)
(* the flag it set                                                         *)
AppendedAndFlagged(e) ==
  LET t     == Tighten(e.original)
      tools == {t \o ToolsParenthetical(k) : k \in TOOL_KEYWORDS}
      focus == {t \o FocusParenthetical(k) :
                  k \in HIGH_SIGNAL_KEYWORDS \ TOOL_KEYWORDS}
  IN  /\ e.suggestion \in {t} \cup tools \cup focus
      /\ e.needs_confirmation <=> e.suggestion \in tools
      /\ e.suggestion \in {t} \cup focus => ~e.needs_confirmation

(* C6, as claimed: at most one keyword parenthetical is appended,          *)
(* needs_confirmation is true exactly when the appended keyword is one of  *)
(* {python, sql, api, git}, and no suggestion carrying the "(Tools used    *)
(* where applicable: ...)" text is emitted with needs_confirmation false.  *)
C6_NoToolsTextUnconfirmed ==
  AfterEdits =>
    \A e \in EditSet :
      /\ AppendedAndFlagged(e)
      /\ Contains(TOOLS_OPEN, e.suggestion) => e.needs_confirmation

(* C6, amended: the suggestion of every SuggestedEdit is the tightened     *)
(* bullet, or that followed by one parenthetical: the tools one for a      *)
(* keyword of {python, sql, api, git}, the focus one for another keyword;  *)
(* needs_confirmation is true exactly when the call appended the tools     *)
(* parenthetical, whatever the bullet already carried.                     *)
C6_ConfirmationGatesTools ==
  AfterEdits => \A e \in EditSet : AppendedAndFlagged(e)

C6_Witness ==
  /\ pc = "done"
  /\ \E e1, e2 \in EditSet :
       /\ e1.needs_confirmation
       /\ e1.suggestion = Tighten(e1.original) \o ToolsParenthetical(KW_SQL)
       /\ ~e2.needs_confirmation
       /\ e2.suggestion = Tighten(e2.original) \o FocusParenthetical(KW_INCIDENT)
       /\ Contains(TOOLS_OPEN, e2.original)

(* C7: safe_rewrite_bullet yields no SuggestedEdit for a bullet shorter    *)
(* than 20 characters, and no edit of run_agent's suggested_edits has an   *)
(* original shorter than 20 characters.                                    *)
C7_ShortBulletsSkipped ==
  AfterEdits =>
    /\ \A i \in 1..Len(bullets) :
         Len(bullets[i]) < 20 => safe_rewrite_bullet(bullets[i], missing) = <<>>
    /\ \A e \in EditSet : Len(e.original) >= 20
    /\ pc = "done" => \A e \in SeqRange(packet.suggested_edits) : Len(e.original) >= 20

C7_Witness ==
  /\ pc = "done"
  /\ EditSet # {}
  /\ \E i \in 1..Len(bullets) :
       /\ Len(bullets[i]) < 20
       /\ i <= MAX_EDITED_BULLETS
       /\ PickKeyword(bullets[i], missing) # <<>>
       /\ \A e \in EditSet : e.original # bullets[i]

(* C8: with an empty job text, phrase_coverage returns coverage 0.0 (no    *)
(* division by the empty phrase list), and the packet run_agent returns    *)
(* reports keyword_coverage 0.0 with empty bank overlap and bank missing   *)
(* lists.                                                                  *)
C8_EmptyJobScoresZero ==
  job_text = <<>> =>
    /\ phrase_coverage(resume_text, job_text).coverage = Zero
    /\ AfterCoverage => phrase_cov = Zero /\ bank_cov = Zero
    /\ AfterKeywords => overlap = <<>> /\ missing = <<>>
    /\ pc = "done" =>
         /\ packet.match_scores.keyword_coverage = 0
         /\ packet.match_scores.overlap_keywords = <<>>
         /\ packet.match_scores.missing_keywords = <<>>

C8_Witness ==
  /\ pc = "done"
  /\ job_text = <<>>
  /\ resume_kws # <<>>
  /\ packet.match_scores.keyword_coverage = 0

(* C9: the reported confidence is min(0.95, 0.45 + 0.5 * min(1, n / 12))   *)
(* rounded to three decimals, n being the number of bank keywords in the   *)
(* job text: a function of the job text alone, never above 0.95.           *)
C9_ConfidenceFromJobOnly ==
  AfterScore =>
    LET n == Cardinality(BankKeywordsIn(job_text))
    IN  /\ scores.confidence =
             IF n >= 12 THEN 950 ELSE (2 * (5400 + 500 * n) + 12) \div 24
        /\ scores.confidence <= 950
        /\ pc = "done" => packet.match_scores.confidence = scores.confidence

C9_Witness ==
  /\ pc = "done"
  /\ Len(job_kws) >= 12
  /\ Len(overlap) \in 1..11
  /\ packet.match_scores.confidence = 950

(* the job phrases phrase_coverage scored *)
ScoredPhrases == SeqRange(phrase_overlap) \cup SeqRange(phrase_missing)

SharingAnchor(S, p) == {q \in S : Anchor(q) = Anchor(p)}

(* C10, as claimed: the job phrases phrase_coverage scores against are the *)
(* relevant phrases reranked with cap 3.                                   *)
C10_CoverageCapAsClaimed ==
  AfterCoverage =>
    ScoredPhrases =
      SeqRange(Take(rerank_phrases_diverse(FilteredPhrases(job_text, COVERAGE_N), 3),
                    COVERAGE_TOP_K))

(* C10, amended: phrase_coverage takes its job phrases from                *)
(* extract_phrases, the only caller of rerank_phrases_diverse, which       *)
(* passes cap 2: at most two job phrases with the same anchor word count   *)
(* toward coverage, and a third one is neither covered nor missing.        *)
C10_CoverageCapIsTwo ==
  AfterCoverage =>
    /\ \A p \in ScoredPhrases : Cardinality(SharingAnchor(ScoredPhrases, p)) <= 2
    /\ ScoredPhrases =
         SeqRange(Take(rerank_phrases_diverse(FilteredPhrases(job_text, COVERAGE_N), 2),
                       COVERAGE_TOP_K))

C10_Witness ==
  /\ AfterCoverage
  /\ \E p \in SeqRange(FilteredPhrases(job_text, COVERAGE_N)) :
       /\ Cardinality(SharingAnchor(SeqRange(FilteredPhrases(job_text, COVERAGE_N)), p)) = 3
       /\ Cardinality(SharingAnchor(ScoredPhrases, p)) = 2

====
